---- MODULE Spec2Model ----
(***************************************************************************)
(* A model of github_stats.py: the request gateway (class Queries: query   *)
(* and query_rest over one asyncio.Semaphore, with the blocking fallback)  *)
(* and the statistics object (class Stats: get_stats, the lazy accessors   *)
(* and total_contributions).                                               *)
(*                                                                         *)
(* One process is one asyncio task.  An action is one resumption of a      *)
(* coroutine: it runs from the await where the task was suspended to the   *)
(* next await.  A blocking `requests` call stops the whole event loop:     *)
(* while `blocking` names a process no other process takes a step.         *)
(***************************************************************************)
EXTENDS Integers, Sequences, FiniteSets, TLC

----------------------------------------------------------------------------
(* Bounds of the model *)

\* processes (tasks, callers) that exist
NProcs == 2
\* largest capacity a gateway is constructed with in SpecGateway
MaxCapacity == 2
\* responses other than a success that the service and the transports give,
\* over all calls
MaxFaults == 2
\* reads one task issues
MaxReads == 3
\* overview pages the service serves before it reports both collections exhausted
MaxPages == 3

(* Program constants *)

\* Queries.__init__: max_connections: int = 10
DefaultCapacity == 10
\* query_rest: for _ in range(60)
MaxAttempts == 60

Procs == 1 .. NProcs

----------------------------------------------------------------------------
(* Values.  Python's None and an absent key are kept apart.                *)

\* None is Python's None, which is also what a JSON null decodes to
None == "<None>"
Absent == "<absent>"
NoneInt == -1
AbsentInt == -2

\* dict.get(key, default): the default only when the key is absent
Get(v, default) == IF v = Absent THEN default ELSE v
GetInt(v, default) == IF v = AbsentInt THEN default ELSE v

\* what a transport hands back: an exception, or a response with a status
\* and a body that is malformed (json() raises), the JSON null, or a JSON
\* object.  The async transport hands back the response when its head has
\* come (Arrived) and the body on `await r_async.json()`.
Exc == [kind |-> "exc"]
Malformed == [t |-> "malformed"]
JsonNull == [t |-> "null"]
Resp(s, b) == [kind |-> "resp", status |-> s, body |-> b]
Arrived(s) == [kind |-> "head", status |-> s]
NoResp == [kind |-> "none"]

\* a response with status 202 (its body is not read) / with a 2xx status /
\* a body that is a JSON value
Accepted(o) == o # Exc /\ o.status = 202
GoodHead(o) == o # Exc /\ o.status \in {200, 202}
GoodBody(b) == b \notin {Malformed, JsonNull}
Success(o) == GoodHead(o) /\ (Accepted(o) \/ GoodBody(o.body))

\* the count n of faults after one more request, a fault or not
Counted(n, fault) == IF fault /\ n < MaxFaults THEN n + 1 ELSE n

\* what a call hands to its caller
EmptyDict == [t |-> "dict"]
NoneValue == [t |-> "None"]
Ret(v) == [tag |-> "return", val |-> v]
Raise == [tag |-> "raise"]
NoResult == [tag |-> "none"]

NoQuery == [q |-> "none"]

----------------------------------------------------------------------------
(* Query Builder: the documents, as the data that tells them apart         *)

\* the text the f-string renders for a cursor
RenderCursor(cursor) == IF cursor = None THEN "null" ELSE <<"\"", cursor, "\"">>

repos_overview(contrib_cursor, owned_cursor) ==
    [q |-> "overview",
     owned_after |-> RenderCursor(owned_cursor),
     contrib_after |-> RenderCursor(contrib_cursor)]

contrib_years == [q |-> "years"]

contribs_by_year(year) == [alias |-> year, from |-> year, to |-> year + 1]

all_contribs(years) ==
    [q |-> "contribs", by_years |-> [i \in DOMAIN years |-> contribs_by_year(years[i])]]

----------------------------------------------------------------------------
(* The aggregation of one overview page (get_stats, the body of its loop)  *)

\* str.lower() on the language names that occur
Lower(s) ==
    CASE s = "Python" -> "python"
      [] s = "PYTHON" -> "python"
      [] s = "C" -> "c"
      [] s = "Other" -> "other"
      [] OTHER -> s

\* a language entry before the proportions are computed has no "prop" key
NoProp == [num |-> 0, den |-> 0]

\* a node that is null in the page (`if repo is None: continue`)
NullRepo == [nameWithOwner |-> "<null node>", edges |-> <<>>]

\* the viewer of a result without data (the empty dict): every key absent
AbsentPage == [nodes |-> <<>>, hasNextPage |-> FALSE, endCursor |-> Absent]

AbsentViewer ==
    [name |-> Absent, login |-> Absent,
     openIssues |-> AbsentInt, closedIssues |-> AbsentInt, pullRequests |-> AbsentInt,
     repositories |-> AbsentPage, repositoriesContributedTo |-> AbsentPage]

\* raw_results.get("data", {}).get("viewer", {})
Viewer(raw_results) ==
    IF raw_results.t = "json" /\ raw_results.q = "overview"
    THEN raw_results.viewer
    ELSE AbsentViewer

\* the display name of a page: lines 308-310
PageName(viewer) ==
    LET name == Get(viewer.name, None)
    IN  IF name = None THEN Get(viewer.login, "No Name") ELSE name

\* lines 314-316
PageIssues(viewer) == GetInt(viewer.closedIssues, 0) + GetInt(viewer.openIssues, 0)

\* line 317
PagePrs(viewer) == GetInt(viewer.pullRequests, 0)

\* a candidate list that would take the contributed page whatever the policy
PageReposAlways(viewer, ignore_forked_repos) ==
    viewer.repositories.nodes \o viewer.repositoriesContributedTo.nodes

\* lines 319-321: the candidate repos of a page
PageRepos(viewer, ignore_forked_repos) ==
    IF ~ignore_forked_repos
    THEN viewer.repositories.nodes \o viewer.repositoriesContributedTo.nodes
    ELSE viewer.repositories.nodes

\* an exclusion test that would compare the name as reported
AddLangCaseSensitive(languages, lang, exclude_langs_lower) ==
    LET name == Get(lang.name, "Other")
    IN  IF name \in exclude_langs_lower THEN languages
        ELSE IF name \in DOMAIN languages
        THEN [languages EXCEPT ![name].size = @ + GetInt(lang.size, 0),
                               ![name].occurrences = @ + 1]
        ELSE [n \in DOMAIN languages \cup {name} |->
                IF n = name
                THEN [size |-> GetInt(lang.size, 0), occurrences |-> 1,
                      color |-> Get(lang.color, None), prop |-> NoProp]
                ELSE languages[n]]

\* lines 332-344: one language edge of an included repo
AddLang(languages, lang, exclude_langs_lower) ==
    LET name == Get(lang.name, "Other")
    IN  IF Lower(name) \in exclude_langs_lower THEN languages
        ELSE IF name \in DOMAIN languages
        THEN [languages EXCEPT ![name].size = @ + GetInt(lang.size, 0),
                               ![name].occurrences = @ + 1]
        ELSE [n \in DOMAIN languages \cup {name} |->
                IF n = name
                THEN [size |-> GetInt(lang.size, 0), occurrences |-> 1,
                      color |-> Get(lang.color, None), prop |-> NoProp]
                ELSE languages[n]]

RECURSIVE AddLangs(_, _, _)
AddLangs(languages, edges, exclude_langs_lower) ==
    IF edges = <<>> THEN languages
    ELSE AddLangs(AddLang(languages, Head(edges), exclude_langs_lower),
                  Tail(edges), exclude_langs_lower)

\* a test that would not look the repo up among those already aggregated
SkipRepoNoDedup(repo, repos, exclude_repos) ==
    \/ repo = NullRepo
    \/ repo.nameWithOwner \in exclude_repos

\* lines 324-329: whether a candidate repo is skipped
SkipRepo(repo, repos, exclude_repos) ==
    \/ repo = NullRepo
    \/ repo.nameWithOwner \in repos
    \/ repo.nameWithOwner \in exclude_repos

\* lines 323-344: the loop over the candidate repos; st = [repos, languages]
RECURSIVE ProcessRepos(_, _, _, _)
ProcessRepos(st, nodes, exclude_repos, exclude_langs_lower) ==
    IF nodes = <<>> THEN st
    ELSE LET repo == Head(nodes)
         IN  IF SkipRepo(repo, st.repos, exclude_repos)
             THEN ProcessRepos(st, Tail(nodes), exclude_repos, exclude_langs_lower)
             ELSE ProcessRepos(
                    [repos |-> st.repos \cup {repo.nameWithOwner},
                     languages |-> AddLangs(st.languages, repo.edges, exclude_langs_lower)],
                    Tail(nodes), exclude_repos, exclude_langs_lower)

\* the identifiers of the repos of a list of nodes
Names(nodes) == {nodes[i].nameWithOwner : i \in DOMAIN nodes} \ {NullRepo.nameWithOwner}

\* pageInfo { hasNextPage endCursor } of a page
PageInfo(page) == [hasNextPage |-> page.hasNextPage, endCursor |-> page.endCursor]

\* a test that would look at the owned collection only
HasNextOwnedOnly(viewer) == viewer.repositories.hasNextPage

\* lines 346-348: whether the loop goes on
HasNext(viewer) ==
    viewer.repositories.hasNextPage \/ viewer.repositoriesContributedTo.hasNextPage

\* lines 349-354: a cursor after a page on which the loop goes on
NextCursor(page, cursor) == Get(page.endCursor, cursor)

\* line 360
RECURSIVE SumSizes(_, _)
SumSizes(languages, names) ==
    IF names = {} THEN 0
    ELSE LET n == CHOOSE x \in names : TRUE
         IN  languages[n].size + SumSizes(languages, names \ {n})

langs_total(languages) == SumSizes(languages, DOMAIN languages)

\* lines 361-362 raise ZeroDivisionError on the first entry when the total is 0
DividesByZero(languages) == DOMAIN languages # {} /\ langs_total(languages) = 0

\* lines 361-362: prop = 100 * size / langs_total, kept as an exact fraction
WithProps(languages) ==
    [n \in DOMAIN languages |->
        [languages[n] EXCEPT !.prop = [num |-> 100 * languages[n].size,
                                       den |-> langs_total(languages)]]]

\* line 395: {k: v.get("prop", 0)}
Proportional(languages) ==
    [n \in DOMAIN languages |->
        IF languages[n].prop = NoProp THEN [num |-> 0, den |-> 1] ELSE languages[n].prop]

\* no page aggregated yet
NoPage == [owned |-> PageInfo(AbsentPage), contrib |-> PageInfo(AbsentPage),
           data |-> FALSE]

\* Optional[Dict] and Optional[Set]: None, or a value
NoneDict == [some |-> FALSE, val |-> <<>>]
NoneSet == [some |-> FALSE, val |-> {}]
Some(v) == [some |-> TRUE, val |-> v]

----------------------------------------------------------------------------
VARIABLES
    \* Queries: the semaphore's free slots, and the capacity it was made with
    semaphore, capacity,
    \* the process inside a blocking requests call (a set of at most one)
    blocking,
    \* per process, its call of query / query_rest: where it is suspended,
    \* which of the two it is, the document, the response it last received
    \* (r_async, r_requests), the loop index of query_rest
    gpc, gkind, gquery, resp, attempt,
    \* per process: asyncio.sleep calls made, 202 responses seen, whether the
    \* "too many 202s" diagnostic was printed, what the call gave its caller
    \* and the requests it handed to a transport
    sleeps, n202, incomplete, result, nreq,
    \* requests, of all processes, that came back with anything but a 2xx
    \* status and a JSON value, counted up to MaxFaults
    faults,
    \* Stats.__init__'s arguments
    _ignore_forked_repos, _exclude_repos, _exclude_langs,
    \* Stats' cached fields
    _name, _total_contributions, _languages, _repos, _issues, _prs,
    \* per task: the coroutine it is in, the accessor it is reading, what its
    \* last read returned, the reads it has issued, get_stats' cursors
    tpc, field, retval, nreads, next_owned, next_contrib,
    \* executions of get_stats and of the two-phase protocol started, and
    \* of the pass last started: the overview pages aggregated, the candidate
    \* repos of those pages, the repos of their owned and of their contributed
    \* collections, the pageInfo of both collections on the last one and
    \* whether the result it came in was other than the empty dict
    runs, tc_runs, pages, seen, owned_seen, contrib_seen, lastpage,
    \* of the two-phase protocol: the documents it handed to queries.query, in
    \* order, and the counts of the batched response it summed
    tc_asked, by_year

gwVars == <<semaphore, capacity, blocking, gpc, gkind, gquery, resp, attempt,
            sleeps, n202, incomplete, result, nreq, faults>>
cfgVars == <<_ignore_forked_repos, _exclude_repos, _exclude_langs>>
cacheVars == <<_name, _total_contributions, _languages, _repos, _issues, _prs>>
taskVars == <<tpc, field, retval, nreads, next_owned, next_contrib>>
ghostVars == <<runs, tc_runs, pages, seen, owned_seen, contrib_seen, lastpage,
               tc_asked, by_year>>
statsVars == <<cacheVars, taskVars, ghostVars>>
vars == <<gwVars, cfgVars, statsVars>>

\* no blocking call is in progress: the event loop runs
LoopRuns == blocking = {}

\* what a read returned: a value of the field's type, or an exception
NoRet == [field |-> "none", raised |-> FALSE, val |-> 0]
Returned(f, v) == [field |-> f, raised |-> FALSE, val |-> v]
Raised(f) == [field |-> f, raised |-> TRUE, val |-> 0]

\* { x.lower() for x in self._exclude_langs }
exclude_langs_lower == {Lower(x) : x \in _exclude_langs}

----------------------------------------------------------------------------
(* The callers' continuations: what runs, without suspending, when a call  *)
(* of query returns or raises                                              *)

\* the call starts: the coroutine is next suspended at the semaphore
StartQuery(p, kind, document) ==
    /\ gpc' = [gpc EXCEPT ![p] = "wait1"]
    /\ gkind' = [gkind EXCEPT ![p] = kind]
    /\ gquery' = [gquery EXCEPT ![p] = document]

EndQuery(p) ==
    /\ gpc' = [gpc EXCEPT ![p] = "idle"]
    /\ gquery' = [gquery EXCEPT ![p] = NoQuery]
    /\ UNCHANGED gkind

\* a read ends: the accessor returns rv to the task
EndRead(p, rv) ==
    /\ tpc' = [tpc EXCEPT ![p] = "idle"]
    /\ field' = [field EXCEPT ![p] = "none"]
    /\ retval' = [retval EXCEPT ![p] = rv]

\* lines 369-373, 380-384, 391-395, 402-406, 413-415, 422-424: what the
\* accessor f does after get_stats returned, on the fields as they are then
AfterGetStats(f, name, languages, repos, issues, prs) ==
    CASE f = "name" -> IF name = None THEN Raised(f) ELSE Returned(f, name)
      [] f = "languages" -> Returned(f, languages.val)
      [] f = "languages_proportional" -> Returned(f, Proportional(languages.val))
      [] f = "repos" -> Returned(f, repos.val)
      [] f = "issues" -> Returned(f, issues)
      [] f = "prs" -> Returned(f, prs)

\* get_stats, lines 305-362, resumed with the result of its query
GetStatsResume(p, res) ==
    IF res = Raise
    THEN \* the exception leaves get_stats and the accessor
         /\ EndRead(p, Raised(field[p]))
         /\ EndQuery(p)
         /\ UNCHANGED <<result, cacheVars, nreads, next_owned, next_contrib, ghostVars>>
    ELSE LET viewer == Viewer(res.val)
             name == PageName(viewer)
             issues == PageIssues(viewer)
             prs == PagePrs(viewer)
             st == ProcessRepos([repos |-> _repos.val, languages |-> _languages.val],
                                PageRepos(viewer, _ignore_forked_repos),
                                _exclude_repos, exclude_langs_lower)
         IN  /\ _name' = name
             /\ _issues' = issues
             /\ _prs' = prs
             /\ _repos' = Some(st.repos)
             /\ pages' = pages + 1
             /\ seen' = seen \cup Names(PageRepos(viewer, _ignore_forked_repos))
             /\ owned_seen' = owned_seen \cup Names(viewer.repositories.nodes)
             /\ contrib_seen' =
                   contrib_seen \cup Names(viewer.repositoriesContributedTo.nodes)
             /\ lastpage' = [owned |-> PageInfo(viewer.repositories),
                             contrib |-> PageInfo(viewer.repositoriesContributedTo),
                             data |-> res.val # EmptyDict]
             /\ UNCHANGED <<result, _total_contributions, nreads, runs, tc_runs,
                            tc_asked, by_year>>
             /\ IF HasNext(viewer)
                THEN /\ next_owned' = [next_owned EXCEPT ![p] =
                                         NextCursor(viewer.repositories, @)]
                     /\ next_contrib' = [next_contrib EXCEPT ![p] =
                                         NextCursor(viewer.repositoriesContributedTo, @)]
                     /\ _languages' = Some(st.languages)
                     /\ StartQuery(p, "graph",
                                   repos_overview(next_contrib'[p], next_owned'[p]))
                     /\ UNCHANGED <<tpc, field, retval>>
                ELSE /\ UNCHANGED <<next_owned, next_contrib>>
                     /\ EndQuery(p)
                     /\ IF DividesByZero(st.languages)
                        THEN /\ _languages' = Some(st.languages)
                             /\ EndRead(p, Raised(field[p]))
                        ELSE /\ _languages' = Some(WithProps(st.languages))
                             /\ EndRead(p, AfterGetStats(field[p], name, _languages',
                                                         _repos', issues, prs))

\* total_contributions, lines 435-443, resumed with the contribution years
YearsResume(p, res) ==
    IF res = Raise
    THEN /\ EndRead(p, Raised(field[p]))
         /\ EndQuery(p)
         /\ UNCHANGED <<result, cacheVars, nreads, next_owned, next_contrib, ghostVars>>
    ELSE LET years == IF res.val.t = "json" /\ res.val.q = "years"
                      THEN res.val.contributionYears ELSE <<>>
         IN  /\ StartQuery(p, "graph", all_contribs(years))
             /\ tpc' = [tpc EXCEPT ![p] = "contribs"]
             /\ tc_asked' = Append(tc_asked, "contribs")
             /\ UNCHANGED <<result, cacheVars, field, retval, nreads,
                            next_owned, next_contrib,
                            runs, tc_runs, pages, seen, owned_seen, contrib_seen, lastpage, by_year>>

\* a sum that would keep the last count only (`=` for `+=`)
SumSeqOverwrite(s) == IF s = <<>> THEN 0 ELSE s[Len(s)]

\* lines 448-451: the counts added up
RECURSIVE SumSeq(_)
SumSeq(s) == IF s = <<>> THEN 0 ELSE Head(s) + SumSeq(Tail(s))

\* total_contributions, lines 444-452, resumed with the batched response
ContribsResume(p, res) ==
    IF res = Raise
    THEN /\ EndRead(p, Raised(field[p]))
         /\ EndQuery(p)
         /\ UNCHANGED <<result, cacheVars, nreads, next_owned, next_contrib, ghostVars>>
    ELSE LET years == IF res.val.t = "json" /\ res.val.q = "contribs"
                      THEN res.val.by_year ELSE <<>>
             total == _total_contributions
                      + SumSeq([i \in DOMAIN years |-> GetInt(years[i], 0)])
         IN  /\ _total_contributions' = total
             /\ by_year' = Some(years)
             /\ EndRead(p, Returned(field[p], total))
             /\ EndQuery(p)
             /\ UNCHANGED <<result, _name, _languages, _repos, _issues, _prs,
                            nreads, next_owned, next_contrib,
                            runs, tc_runs, pages, seen, owned_seen, contrib_seen, lastpage, tc_asked>>

\* a caller outside Stats keeps what the call gave it
CallerResume(p, res) ==
    /\ gpc' = [gpc EXCEPT ![p] = "done"]
    /\ result' = [result EXCEPT ![p] = res]
    /\ UNCHANGED <<gkind, gquery, statsVars>>

\* the call of process p ends with res (Ret(v) or Raise): its caller goes on
Return(p, res) ==
    CASE tpc[p] = "caller" -> CallerResume(p, res)
      [] tpc[p] = "get_stats" -> GetStatsResume(p, res)
      [] tpc[p] = "years" -> YearsResume(p, res)
      [] tpc[p] = "contribs" -> ContribsResume(p, res)

\* the call stays inside the gateway, now suspended at `at`
Stay(p, at) ==
    /\ gpc' = [gpc EXCEPT ![p] = at]
    /\ UNCHANGED <<gkind, gquery, result, statsVars>>

----------------------------------------------------------------------------
(* Queries.query and Queries.query_rest                                    *)

\* a loop that would go round once more than range(60)
NextIterationOneMore(p) ==
    /\ attempt' = [attempt EXCEPT ![p] = @ + 1]
    /\ IF attempt[p] + 1 < MaxAttempts + 1
       THEN /\ Stay(p, "wait1")
            /\ UNCHANGED incomplete
       ELSE /\ incomplete' = [incomplete EXCEPT ![p] = TRUE]
            /\ Return(p, Ret(EmptyDict))

\* query_rest: the end of one iteration of `for _ in range(60)` that did not
\* return; after the last one, lines 114-115
NextIteration(p) ==
    /\ attempt' = [attempt EXCEPT ![p] = @ + 1]
    /\ IF attempt[p] + 1 < MaxAttempts
       THEN /\ Stay(p, "wait1")
            /\ UNCHANGED incomplete
       ELSE /\ incomplete' = [incomplete EXCEPT ![p] = TRUE]
            /\ Return(p, Ret(EmptyDict))

\* a 202 that would be retried at once, without asyncio.sleep
BackoffNoSleep(p, at) ==
    /\ n202' = [n202 EXCEPT ![p] = @ + 1]
    /\ Stay(p, at)
    /\ UNCHANGED sleeps

\* lines 90-94 and 107-111: on status 202, `await asyncio.sleep(2)`; the
\* coroutine is suspended in the sleep, at `at`
Backoff(p, at) ==
    /\ sleeps' = [sleeps EXCEPT ![p] = @ + 1]
    /\ n202' = [n202 EXCEPT ![p] = @ + 1]
    /\ Stay(p, at)

\* a caller outside Stats calls query (kind "graph") or query_rest ("rest")
Call(p, kind) ==
    /\ LoopRuns
    /\ tpc[p] = "caller"
    /\ gpc[p] = "idle"
    /\ StartQuery(p, kind, NoQuery)
    /\ UNCHANGED <<semaphore, capacity, blocking, resp, attempt, sleeps, n202,
                   incomplete, result, nreq, faults, cfgVars, statsVars>>

\* lines 45 and 85, `async with self.semaphore`: a free slot is taken and
\* the request goes to the async transport
Acquire(p) ==
    /\ LoopRuns
    /\ gpc[p] = "wait1"
    /\ semaphore > 0
    /\ semaphore' = semaphore - 1
    /\ nreq' = [nreq EXCEPT ![p] = @ + 1]
    /\ Stay(p, "post")
    /\ UNCHANGED <<capacity, blocking, resp, attempt, sleeps, n202, incomplete, faults,
                   cfgVars>>

\* lines 46-50 and 86-94: session.post / session.get raises or returns the
\* response o; either way the slot is released on leaving the `async with`
PostReturn(p, o) ==
    /\ LoopRuns
    /\ gpc[p] = "post"
    /\ semaphore' = semaphore + 1
    /\ faults' = Counted(faults, ~GoodHead(o))
    /\ UNCHANGED <<capacity, blocking, attempt, incomplete, nreq, cfgVars>>
    /\ IF o = Exc
       THEN /\ Stay(p, "wait2")
            /\ UNCHANGED <<resp, sleeps, n202>>
       ELSE /\ resp' = [resp EXCEPT ![p] = o]
            /\ IF gkind[p] = "rest" /\ o.status = 202
               THEN Backoff(p, "sleep1")
               ELSE /\ Stay(p, "body")
                    /\ UNCHANGED <<sleeps, n202>>

\* lines 51-53 and 96-98: `await r_async.json()` on the body b raises (into
\* the except branch), or gives None or a value
BodyReturn(p, b) ==
    /\ LoopRuns
    /\ gpc[p] = "body"
    /\ faults' = Counted(faults, ~GoodBody(b))
    /\ UNCHANGED <<semaphore, capacity, blocking, resp, sleeps, n202, nreq, cfgVars>>
    /\ CASE b = Malformed ->
              Stay(p, "wait2") /\ UNCHANGED <<attempt, incomplete>>
         [] b = JsonNull /\ gkind[p] = "graph" ->
              Return(p, Ret(EmptyDict)) /\ UNCHANGED <<attempt, incomplete>>
         [] b = JsonNull /\ gkind[p] = "rest" ->
              NextIteration(p)
         [] OTHER ->
              Return(p, Ret(b)) /\ UNCHANGED <<attempt, incomplete>>

\* lines 93-94: asyncio.sleep(2) is over; continue
Wake(p) ==
    /\ LoopRuns
    /\ gpc[p] = "sleep1"
    /\ NextIteration(p)
    /\ UNCHANGED <<semaphore, capacity, blocking, resp, sleeps, n202, nreq, faults,
                   cfgVars>>

\* a fallback that would make its request without waiting for a free slot
AcquireFallbackUngated(p) ==
    /\ LoopRuns
    /\ gpc[p] = "wait2"
    /\ semaphore' = semaphore - 1
    /\ blocking' = {p}
    /\ nreq' = [nreq EXCEPT ![p] = @ + 1]
    /\ Stay(p, "fallback")
    /\ UNCHANGED <<capacity, resp, attempt, sleeps, n202, incomplete, faults, cfgVars>>

\* lines 57 and 102, in the except branch: a free slot is taken and the
\* blocking request is made, which holds the event loop until it returns
AcquireFallback(p) ==
    /\ LoopRuns
    /\ gpc[p] = "wait2"
    /\ semaphore > 0
    /\ semaphore' = semaphore - 1
    /\ blocking' = {p}
    /\ nreq' = [nreq EXCEPT ![p] = @ + 1]
    /\ Stay(p, "fallback")
    /\ UNCHANGED <<capacity, resp, attempt, sleeps, n202, incomplete, faults, cfgVars>>

\* lines 58-65: query's requests.post raises or returns o; nothing catches
\* an exception raised here
FallbackGraph(p, o) ==
    IF o = Exc \/ o.body = Malformed
    THEN Return(p, Raise)
    ELSE IF o.body = JsonNull
    THEN Return(p, Ret(EmptyDict))
    ELSE Return(p, Ret(o.body))

\* lines 103-113: query_rest's requests.get raises or returns o
FallbackRest(p, o) ==
    IF o = Exc
    THEN Return(p, Raise) /\ UNCHANGED <<attempt, incomplete>>
    ELSE IF o.status = 200
    THEN /\ UNCHANGED <<attempt, incomplete>>
         /\ IF o.body = Malformed THEN Return(p, Raise)
            ELSE IF o.body = JsonNull THEN Return(p, Ret(NoneValue))
            ELSE Return(p, Ret(o.body))
    ELSE NextIteration(p)

FallbackReturn(p, o) ==
    /\ blocking = {p}
    /\ gpc[p] = "fallback"
    /\ blocking' = {}
    /\ faults' = Counted(faults, ~Success(o))
    /\ resp' = IF o = Exc THEN resp ELSE [resp EXCEPT ![p] = Arrived(o.status)]
    /\ UNCHANGED <<capacity, nreq, cfgVars>>
    /\ IF gkind[p] = "rest" /\ o # Exc /\ o.status = 202
       THEN \* lines 108-111: the sleep is inside the `async with`
            /\ Backoff(p, "sleep2")
            /\ UNCHANGED <<semaphore, attempt, incomplete>>
       ELSE /\ semaphore' = semaphore + 1
            /\ UNCHANGED <<sleeps, n202>>
            /\ IF gkind[p] = "graph"
               THEN FallbackGraph(p, o) /\ UNCHANGED <<attempt, incomplete>>
               ELSE FallbackRest(p, o)

\* a `continue` that would leave the fallback's block without releasing
WakeFallbackKeepsSlot(p) ==
    /\ LoopRuns
    /\ gpc[p] = "sleep2"
    /\ NextIteration(p)
    /\ UNCHANGED <<semaphore, capacity, blocking, resp, sleeps, n202, nreq, faults, cfgVars>>

\* lines 110-111: the sleep inside the fallback's `async with` is over;
\* continue leaves the block and releases the slot
WakeFallback(p) ==
    /\ LoopRuns
    /\ gpc[p] = "sleep2"
    /\ semaphore' = semaphore + 1
    /\ NextIteration(p)
    /\ UNCHANGED <<capacity, blocking, resp, sleeps, n202, nreq, faults, cfgVars>>

----------------------------------------------------------------------------
(* Stats: the lazy accessors                                               *)

Fields == {"name", "languages", "languages_proportional", "repos", "issues", "prs",
           "total_contributions"}

\* whether the accessor f returns what is cached (the test it makes first)
Cached(f) ==
    CASE f = "name" -> _name # None
      [] f = "languages" -> _languages # NoneDict
      [] f = "languages_proportional" -> _languages # NoneDict
      [] f = "repos" -> _repos # NoneSet
      [] f = "issues" -> _issues # NoneInt
      [] f = "prs" -> _prs # NoneInt
      [] f = "total_contributions" -> _total_contributions # NoneInt

\* the cached value the accessor f returns
CachedValue(f) ==
    CASE f = "name" -> Returned(f, _name)
      [] f = "languages" -> Returned(f, _languages.val)
      [] f = "languages_proportional" -> Returned(f, Proportional(_languages.val))
      [] f = "repos" -> Returned(f, _repos.val)
      [] f = "issues" -> Returned(f, _issues)
      [] f = "prs" -> Returned(f, _prs)
      [] f = "total_contributions" -> Returned(f, _total_contributions)

\* get_stats, lines 292-304: the reset, and the first overview query
get_stats(p) ==
    /\ _languages' = Some(<<>>)
    /\ _repos' = Some({})
    /\ next_owned' = [next_owned EXCEPT ![p] = None]
    /\ next_contrib' = [next_contrib EXCEPT ![p] = None]
    /\ runs' = runs + 1
    /\ pages' = 0
    /\ seen' = {}
    /\ owned_seen' = {}
    /\ contrib_seen' = {}
    /\ lastpage' = NoPage
    /\ tpc' = [tpc EXCEPT ![p] = "get_stats"]
    /\ StartQuery(p, "graph", repos_overview(None, None))
    /\ UNCHANGED <<_name, _total_contributions, _issues, _prs, tc_runs, tc_asked, by_year>>

\* total_contributions, lines 434-436: the placeholder, and the years query
compute_total_contributions(p) ==
    /\ _total_contributions' = 0
    /\ tc_runs' = tc_runs + 1
    /\ tc_asked' = <<"years">>
    /\ tpc' = [tpc EXCEPT ![p] = "years"]
    /\ StartQuery(p, "graph", contrib_years)
    /\ UNCHANGED <<_name, _languages, _repos, _issues, _prs, next_owned, next_contrib,
                   runs, pages, seen, owned_seen, contrib_seen, lastpage, by_year>>

\* task p reads the lazy field f (`await s.f`), up to the first await
Read(p, f) ==
    /\ LoopRuns
    /\ tpc[p] = "idle"
    /\ nreads[p] < MaxReads
    /\ nreads' = [nreads EXCEPT ![p] = @ + 1]
    /\ UNCHANGED <<semaphore, capacity, blocking, resp, attempt, sleeps, n202,
                   incomplete, result, nreq, faults, cfgVars>>
    /\ IF Cached(f)
       THEN /\ retval' = [retval EXCEPT ![p] = CachedValue(f)]
            /\ UNCHANGED <<gpc, gkind, gquery, cacheVars, tpc, field,
                           next_owned, next_contrib, ghostVars>>
       ELSE /\ field' = [field EXCEPT ![p] = f]
            /\ retval' = [retval EXCEPT ![p] = NoRet]
            /\ IF f = "total_contributions"
               THEN compute_total_contributions(p)
               ELSE get_stats(p)

----------------------------------------------------------------------------
(* The service and the transports: what a request can come back with       *)

\* the body of a REST or GraphQL response served with status s
Payload(s) == [t |-> "json", q |-> "raw", of |-> s]

RestStatuses == {200, 202, 404}

\* what the async transport may come back with: on the request, on the body
Heads(p) == {Exc} \cup {Arrived(s) : s \in IF gkind[p] = "rest" THEN RestStatuses ELSE {200}}
RawBodies(p) ==
    IF gpc[p] = "body" THEN {Malformed, JsonNull, Payload(resp[p].status)} ELSE {}

\* what the blocking transport may come back with
RawOutcomes(p) ==
    {Exc} \cup {Resp(s, b) : s \in IF gkind[p] = "rest" THEN RestStatuses ELSE {200},
                            b \in {Malformed, JsonNull}}
          \cup {Resp(s, Payload(s)) : s \in IF gkind[p] = "rest" THEN RestStatuses ELSE {200}}

----------------------------------------------------------------------------
(* Initial states                                                          *)

InitGatewayVars(cap) ==
    /\ semaphore = cap
    /\ capacity = cap
    /\ blocking = {}
    /\ gpc = [p \in Procs |-> "idle"]
    /\ gkind = [p \in Procs |-> "graph"]
    /\ gquery = [p \in Procs |-> NoQuery]
    /\ resp = [p \in Procs |-> NoResp]
    /\ attempt = [p \in Procs |-> 0]
    /\ sleeps = [p \in Procs |-> 0]
    /\ n202 = [p \in Procs |-> 0]
    /\ incomplete = [p \in Procs |-> FALSE]
    /\ result = [p \in Procs |-> NoResult]
    /\ nreq = [p \in Procs |-> 0]
    /\ faults = 0

\* Stats.__init__, lines 261-272, for the task states given
InitStatsVars(tasks) ==
    /\ _name = None
    /\ _total_contributions = NoneInt
    /\ _languages = NoneDict
    /\ _repos = NoneSet
    /\ _issues = 0
    /\ _prs = 0
    /\ tpc = tasks
    /\ field = [p \in Procs |-> "none"]
    /\ retval = [p \in Procs |-> NoRet]
    /\ nreads = [p \in Procs |-> 0]
    /\ next_owned = [p \in Procs |-> None]
    /\ next_contrib = [p \in Procs |-> None]
    /\ runs = 0
    /\ tc_runs = 0
    /\ pages = 0
    /\ seen = {}
    /\ owned_seen = {}
    /\ contrib_seen = {}
    /\ lastpage = NoPage
    /\ tc_asked = <<>>
    /\ by_year = NoneDict

InitConfig(ignore, xrepos, xlangs) ==
    /\ _ignore_forked_repos = ignore
    /\ _exclude_repos = xrepos
    /\ _exclude_langs = xlangs

----------------------------------------------------------------------------
(* SpecGateway: callers of query and query_rest share one gateway whose    *)
(* capacity is between 1 and MaxCapacity; at most MaxFaults requests come  *)
(* back with anything but a success, at most one per call with 202         *)

InitGateway ==
    /\ \E cap \in 1 .. MaxCapacity : InitGatewayVars(cap)
    /\ InitStatsVars([p \in Procs |-> "caller"])
    /\ InitConfig(FALSE, {}, {})

\* at most MaxFaults requests come back with anything but a success
ServesHead(o) == GoodHead(o) \/ faults < MaxFaults
ServesBody(b) == GoodBody(b) \/ faults < MaxFaults
Serves(o) == Success(o) \/ faults < MaxFaults

\* at most one request of the call of p comes back with 202
FewAccepted(p, o) == Accepted(o) => n202[p] = 0

NextGateway ==
    \E p \in Procs :
        \/ \E kind \in {"graph", "rest"} : Call(p, kind)
        \/ Acquire(p)
        \/ \E o \in Heads(p) : ServesHead(o) /\ FewAccepted(p, o) /\ PostReturn(p, o)
        \/ \E b \in RawBodies(p) : ServesBody(b) /\ BodyReturn(p, b)
        \/ Wake(p)
        \/ AcquireFallback(p)
        \/ \E o \in RawOutcomes(p) : Serves(o) /\ FewAccepted(p, o) /\ FallbackReturn(p, o)
        \/ WakeFallback(p)

SpecGateway == InitGateway /\ [][NextGateway]_vars

\* a waiting call is admitted: Semaphore.acquire returns
Admit(p) == Acquire(p) \/ AcquireFallback(p)

\* a request handed to a transport returns, and a sleep ends
Transport(p) ==
    \/ \E o \in Heads(p) : ServesHead(o) /\ FewAccepted(p, o) /\ PostReturn(p, o)
    \/ \E b \in RawBodies(p) : ServesBody(b) /\ BodyReturn(p, b)
    \/ Wake(p)
    \/ \E o \in RawOutcomes(p) : Serves(o) /\ FewAccepted(p, o) /\ FallbackReturn(p, o)
    \/ WakeFallback(p)

\* some call that can go on does: the event loop resumes a coroutine that
\* is ready, a request returns, a sleep ends
Progress == \E p \in Procs : Admit(p) \/ Transport(p)

FairGateway == WF_vars(Progress)

----------------------------------------------------------------------------
(* SpecSlots: the callers of SpecGateway on a gateway of capacity 1, under *)
(* an event loop that does not stop while a call can go on                 *)

InitSlots ==
    /\ InitGatewayVars(1)
    /\ InitStatsVars([p \in Procs |-> "caller"])
    /\ InitConfig(FALSE, {}, {})

SpecSlots == InitSlots /\ [][NextGateway]_vars /\ FairGateway

----------------------------------------------------------------------------
(* SpecRest: one call of query_rest; the service answers 202 as often as   *)
(* it likes, and at most MaxFaults requests come back with anything but a  *)
(* success                                                                 *)

InitRest ==
    /\ InitGatewayVars(DefaultCapacity)
    /\ InitStatsVars([p \in Procs |-> "caller"])
    /\ InitConfig(FALSE, {}, {})

NextRest ==
    \/ Call(1, "rest")
    \/ Acquire(1)
    \/ \E o \in Heads(1) : ServesHead(o) /\ PostReturn(1, o)
    \/ \E b \in RawBodies(1) : ServesBody(b) /\ BodyReturn(1, b)
    \/ Wake(1)
    \/ AcquireFallback(1)
    \/ \E o \in RawOutcomes(1) : Serves(o) /\ FallbackReturn(1, o)
    \/ WakeFallback(1)

SpecRest == InitRest /\ [][NextRest]_vars

----------------------------------------------------------------------------
(* What the GraphQL service answers to the documents of Stats              *)

OverviewBody(viewer) == [t |-> "json", q |-> "overview", viewer |-> viewer]
YearsBody(years) == [t |-> "json", q |-> "years", contributionYears |-> years]
ContribsBody(counts) == [t |-> "json", q |-> "contribs", by_year |-> counts]

Edge(name, size, color) == [name |-> name, size |-> size, color |-> color]
Repo(nameWithOwner, edges) == [nameWithOwner |-> nameWithOwner, edges |-> edges]
Page(nodes, hasNextPage, endCursor) ==
    [nodes |-> nodes, hasNextPage |-> hasNextPage, endCursor |-> endCursor]

RepoA == Repo("u/a", <<Edge("Python", 2, "blue")>>)
RepoB == Repo("u/b", <<Edge("C", 1, "grey"), Edge("Python", 3, "green")>>)
RepoC == Repo("o/c", <<Edge("python", 0, None), Edge(Absent, AbsentInt, Absent)>>)

\* the counters and names of a viewer
Header(name, login, open, closed, prs) ==
    [name |-> name, login |-> login, openIssues |-> open, closedIssues |-> closed,
     pullRequests |-> prs]

MkViewer(h, owned, contrib) ==
    [name |-> h.name, login |-> h.login,
     openIssues |-> h.openIssues, closedIssues |-> h.closedIssues,
     pullRequests |-> h.pullRequests,
     repositories |-> owned, repositoriesContributedTo |-> contrib]

HeaderAnn == Header("Ann", "ann", 1, 2, 4)
HeaderNull == Header(None, None, 3, 0, 5)

\* the pages of the two collections that the service serves in SpecAgg
OwnedLists == {<<RepoA, RepoB>>, <<NullRepo, RepoC>>}
ContribLists == {<<RepoB, RepoA>>, <<RepoC, RepoC>>}
OwnedPages ==
    {Page(n, m, c) : n \in OwnedLists, m \in BOOLEAN, c \in {Absent, None, "o1"}}
ContribPages ==
    {Page(n, m, c) : n \in ContribLists, m \in BOOLEAN, c \in {Absent, None, "c1"}}
AggViewers == {MkViewer(HeaderAnn, o, c) : o \in OwnedPages, c \in ContribPages}

\* the overview responses served where the pages do not matter
LazyViewers ==
    {MkViewer(h, o, AbsentPage) :
        h \in {HeaderAnn, HeaderNull},
        o \in {Page(<<RepoA>>, TRUE, "o1"), Page(<<RepoB>>, FALSE, None)}}

YearLists == {<<>>, <<2019>>, <<2019, 2020>>}
Counts == {AbsentInt, 42, 58}

\* the JSON objects the service may answer the document p sent with, given
\* the overview responses of the specification
Objects(p, viewers) ==
    CASE gquery[p].q = "overview" -> {OverviewBody(v) : v \in viewers}
      [] gquery[p].q = "years" -> {YearsBody(ys) : ys \in YearLists}
      [] gquery[p].q = "contribs" ->
            {ContribsBody(c) : c \in [DOMAIN gquery[p].by_years -> Counts]}
      [] OTHER -> {}

\* what the async transport may come back with on the body, and the
\* blocking transport on the request
Bodies(p, viewers) == {Malformed, JsonNull} \cup Objects(p, viewers)
Answers(p, viewers) == {Exc} \cup {Resp(200, b) : b \in Bodies(p, viewers)}
GraphHeads == {Exc, Arrived(200)}

\* the collections are finite: the service reports a next page on fewer
\* than MaxPages pages of one pass
Finite(b) ==
    (GoodBody(b) /\ b.q = "overview" /\ HasNext(b.viewer)) => pages + 1 < MaxPages

\* Stats.__init__ line 265: Queries(username, access_token, session)
InitStats ==
    /\ InitGatewayVars(DefaultCapacity)
    /\ InitStatsVars([p \in Procs |-> "idle"])

----------------------------------------------------------------------------
(* SpecSeq: one task reads lazy fields one after another                   *)

InitSeq == InitStats /\ InitConfig(FALSE, {}, {})

NextSeq ==
    \/ \E f \in Fields : Read(1, f)
    \/ Acquire(1)
    \/ \E o \in GraphHeads : ServesHead(o) /\ PostReturn(1, o)
    \/ \E b \in Bodies(1, LazyViewers) : ServesBody(b) /\ Finite(b) /\ BodyReturn(1, b)
    \/ AcquireFallback(1)
    \/ \E o \in Answers(1, LazyViewers) :
            Serves(o) /\ (o # Exc => Finite(o.body)) /\ FallbackReturn(1, o)

SpecSeq == InitSeq /\ [][NextSeq]_vars

----------------------------------------------------------------------------
(* SpecConc: the tasks read one lazy field each, concurrently              *)

InitConc == InitStats /\ InitConfig(FALSE, {}, {})

NextConc ==
    \E p \in Procs :
        \/ \E f \in Fields : nreads[p] = 0 /\ Read(p, f)
        \/ Acquire(p)
        \/ \E o \in GraphHeads : ServesHead(o) /\ PostReturn(p, o)
        \/ \E b \in Bodies(p, LazyViewers) : ServesBody(b) /\ Finite(b) /\ BodyReturn(p, b)
        \/ AcquireFallback(p)
        \/ \E o \in Answers(p, LazyViewers) :
            Serves(o) /\ (o # Exc => Finite(o.body)) /\ FallbackReturn(p, o)

SpecConc == InitConc /\ [][NextConc]_vars

----------------------------------------------------------------------------
(* SpecAgg: one aggregation pass over the pages of both collections, for   *)
(* every setting of the exclusions and of the ignore policy; each request  *)
(* is answered, with the JSON null or with an overview page                *)

AggFields == {"languages", "repos"}

InitAgg ==
    /\ InitStats
    /\ \E ignore \in BOOLEAN, xrepos \in {{}, {"u/b"}}, xlangs \in {{}, {"PYTHON"}} :
          InitConfig(ignore, xrepos, xlangs)

NextAgg ==
    \/ \E f \in AggFields : runs = 0 /\ Read(1, f)
    \/ Acquire(1)
    \/ PostReturn(1, Arrived(200))
    \/ \E b \in {JsonNull} \cup Objects(1, AggViewers) : Finite(b) /\ BodyReturn(1, b)

SpecAgg == InitAgg /\ [][NextAgg]_vars

Spec == SpecConc

----------------------------------------------------------------------------
(* Properties of the request gateway                                       *)

\* the processes that have acquired a slot and not yet released it
InFlight == {p \in Procs : gpc[p] \in {"post", "fallback", "sleep2"}}

\* C5: with capacity N, in every reachable state the requests that have
\* acquired a slot and not yet released it, primary and fallback together,
\* are at most N.
C5_InFlightBounded == Cardinality(InFlight) <= capacity

\* all slots are taken, one of them by a fallback request, and a call waits
C5_Witness ==
    /\ Cardinality(InFlight) = capacity
    /\ \E p \in Procs : gpc[p] = "fallback"
    /\ \E p \in Procs : gpc[p] \in {"wait1", "wait2"}

\* C2: a call whose primary transport failed and whose fallback fails too
\* returns the empty result; no exception leaves the call.
C2_NoExceptionEscapes ==
    \A p \in Procs : gpc[p] = "done" => result[p] # Raise

\* the call of query_rest ended on its fourth request, after three requests
\* answered 202, with a response of status 200
C6_Scenario ==
    /\ gpc[1] = "done"
    /\ gkind[1] = "rest"
    /\ nreq[1] = 4
    /\ n202[1] = 3
    /\ resp[1] = Arrived(200)

\* C6, as stated: on 202, 202, 202, 200 the call returns the payload of the
\* 200 response and has slept exactly twice.
C6_SleepsTwice ==
    C6_Scenario => result[1] = Ret(Payload(200)) /\ sleeps[1] = 2

\* C6, amended: on 202, 202, 202, 200 the call returns the payload of the
\* 200 response and has slept exactly three times, once after each 202.
C6_SleepsAfterEach202 ==
    C6_Scenario => result[1] = Ret(Payload(200)) /\ sleeps[1] = 3

C6_Witness == C6_Scenario /\ faults = 0 /\ attempt[1] = 3

\* every request the call has made was answered 202, but for one in flight
C7_AllAccepted ==
    n202[1] = nreq[1] - (IF gpc[1] \in {"post", "fallback"} THEN 1 ELSE 0)

\* C7: when every request of a call of query_rest is answered 202, the call
\* makes 60 requests and no 61st, then returns the empty result, having
\* printed the diagnostic, and raises nothing.
C7_GivesUpAfter60 ==
    /\ attempt[1] <= MaxAttempts
    /\ C7_AllAccepted => nreq[1] <= MaxAttempts
    /\ (n202[1] = MaxAttempts /\ nreq[1] = MaxAttempts) => gpc[1] \in {"sleep1", "done"}
    /\ (gpc[1] = "done" /\ n202[1] = nreq[1]) =>
            /\ nreq[1] = MaxAttempts
            /\ result[1] = Ret(EmptyDict)
            /\ incomplete[1]

C7_Witness ==
    /\ gpc[1] = "done"
    /\ n202[1] = MaxAttempts
    /\ nreq[1] = MaxAttempts
    /\ incomplete[1]

----------------------------------------------------------------------------
(* Properties of the lazy accessors                                        *)

\* the fields whose accessors call get_stats
StatFields == Fields \ {"total_contributions"}

\* C1: when two tasks concurrently read two different fields that both
\* depend on the aggregation, on a fresh object, get_stats is executed
\* exactly once in total.
C1_SingleFlight ==
    \A p, q \in Procs :
        (field[p] \in StatFields /\ field[q] \in StatFields /\ field[p] # field[q])
            => runs = 1

\* C3: over reads issued one after another, get_stats runs at most once and
\* the two-phase contribution protocol runs at most once.
C3_ComputedOnce == runs <= 1 /\ tc_runs <= 1

\* C4: a read of any field on a fresh object, issues and prs included, has
\* triggered the aggregation by the time it returns a value.
C4_ReadAggregates ==
    \A p \in Procs :
        /\ (retval[p].field \in StatFields /\ ~retval[p].raised) => runs >= 1
        /\ (retval[p].field = "total_contributions" /\ ~retval[p].raised) => tc_runs >= 1

----------------------------------------------------------------------------
(* Properties of the aggregation                                           *)

\* the repos the service knows, and the language names they report
Catalogue == {RepoA, RepoB, RepoC}
EdgeNames(repo) == {Get(repo.edges[i].name, "Other") : i \in DOMAIN repo.edges}
AllNames == UNION {EdgeNames(r) : r \in Catalogue}

\* the repos among ids that report the language n
Reporting(ids, n) ==
    {id \in ids : \E r \in Catalogue : r.nameWithOwner = id /\ n \in EdgeNames(r)}

\* the size the repo id reports for the language n
SizeIn(id, n) ==
    LET r == CHOOSE x \in Catalogue : x.nameWithOwner = id
        i == CHOOSE k \in DOMAIN r.edges : Get(r.edges[k].name, "Other") = n
    IN  GetInt(r.edges[i].size, 0)

RECURSIVE SizeOver(_, _)
SizeOver(ids, n) ==
    IF ids = {} THEN 0
    ELSE LET id == CHOOSE x \in ids : TRUE
         IN  SizeIn(id, n) + SizeOver(ids \ {id}, n)

\* C8: a repo that appears in both collections, or on several pages, is
\* aggregated once: the repo set holds every candidate that is not excluded,
\* and the occurrences of a language are the number of distinct repos of
\* the set that report it.
C8_AggregatedOnce ==
    (_repos.some /\ _languages.some) =>
        /\ _repos.val = seen \ _exclude_repos
        /\ \A n \in DOMAIN _languages.val :
              _languages.val[n].occurrences = Cardinality(Reporting(_repos.val, n))
        /\ \A n \in AllNames :
              (Reporting(_repos.val, n) # {} /\ Lower(n) \notin exclude_langs_lower)
                  => n \in DOMAIN _languages.val

\* all three repos were aggregated, over two pages or more
C8_Witness ==
    /\ tpc[1] = "idle"
    /\ pages >= 2
    /\ _repos = Some({"u/a", "u/b", "o/c"})
    /\ _languages.val["Python"].occurrences = 2

\* C9: during and after the aggregation an excluded repo is not in the repo
\* set and adds nothing to the sizes and occurrences of its languages, and
\* no language whose name is an excluded name, case ignored, is in the
\* language table.
C9_ExcludedLeftOut ==
    /\ _repos.val \cap _exclude_repos = {}
    /\ \A n \in DOMAIN _languages.val :
          /\ \A x \in _exclude_langs : Lower(n) # Lower(x)
          /\ _languages.val[n].size = SizeOver(Reporting(seen \ _exclude_repos, n), n)
          /\ _languages.val[n].occurrences =
                Cardinality(Reporting(seen \ _exclude_repos, n))

\* an excluded repo and an excluded language were on the pages aggregated
C9_Witness ==
    /\ tpc[1] = "idle"
    /\ _exclude_repos = {"u/b"}
    /\ _exclude_langs = {"PYTHON"}
    /\ seen = {"u/a", "u/b", "o/c"}
    /\ DOMAIN _languages.val = {"Other"}

\* the last page aggregated reports a next page of either collection
More == lastpage.owned.hasNextPage \/ lastpage.contrib.hasNextPage

\* C10: after a page is aggregated the loop requests another overview page
\* exactly if the page reports a next page of either collection; on the
\* first page that reports none the pass ends, that page aggregated.
C10_ContinuesIffMore ==
    [][pages' = pages + 1 =>
         /\ More' <=> (tpc'[1] = "get_stats" /\ gpc'[1] = "wait1"
                          /\ gquery'[1].q = "overview")
         /\ ~More' => (tpc'[1] = "idle" /\ _repos'.val = seen' \ _exclude_repos)]_vars

\* the pass ended on its second page or later, after a page on which only
\* the contributed collection reported a next page
C10_Witness ==
    /\ tpc[1] = "idle"
    /\ runs = 1
    /\ pages >= 2
    /\ ~More
    /\ next_owned[1] = None
    /\ next_contrib[1] = "c1"

----------------------------------------------------------------------------
(* Properties of the contribution total                                    *)

\* the task that is inside total_contributions, if any, is at its query
\* number Len(tc_asked)
C11_InOrder ==
    /\ tc_asked \in {<<>>, <<"years">>, <<"years", "contribs">>}
    /\ \A p \in Procs :
          /\ tpc[p] = "years" => (tc_asked = <<"years">> /\ gquery[p] = contrib_years)
          /\ tpc[p] = "contribs" =>
                (tc_asked = <<"years", "contribs">> /\ gquery[p].q = "contribs")

\* the total of the first n year entries of a batched response
RECURSIVE CountsTotal(_, _)
CountsTotal(counts, n) ==
    IF n = 0 THEN 0
    ELSE CountsTotal(counts, n - 1) + (IF counts[n] = AbsentInt THEN 0 ELSE counts[n])

\* C11: total_contributions hands two documents to the gateway, the years
\* query and then, when that has returned, the one batched query; what it
\* returns is the sum of the counts of the batched response, an entry
\* without a count adding 0.
C11_TwoPhaseSum ==
    /\ C11_InOrder
    /\ by_year.some =>
          /\ tc_asked = <<"years", "contribs">>
          /\ tc_runs = 1
          /\ _total_contributions = CountsTotal(by_year.val, Len(by_year.val))
          /\ \A p \in Procs :
                (retval[p].field = "total_contributions" /\ ~retval[p].raised
                   /\ tpc[p] = "idle")
                    => retval[p].val = _total_contributions

\* the years 2019 and 2020 with 42 and 58 contributions gave 100
C11_Witness ==
    /\ by_year = Some(<<42, 58>>)
    /\ retval[1] = Returned("total_contributions", 100)

----------------------------------------------------------------------------
(* Properties of the fields get_stats leaves                               *)

\* the pass of task 1 is over
PassOver == runs = 1 /\ tpc[1] = "idle"

\* C12: when get_stats completes, with an empty language table or not, the
\* proportion step has not failed, and every language's proportion is
\* 100 * size / (the sum of the sizes of the table), also when the sizes
\* reported are all 0.
C12_ProportionsDefined ==
    PassOver =>
        /\ ~retval[1].raised
        /\ \A n \in DOMAIN _languages.val :
              /\ _languages.val[n].prop.den # 0
              /\ _languages.val[n].prop =
                    [num |-> 100 * _languages.val[n].size,
                     den |-> langs_total(_languages.val)]

\* C13: when the gateway returns the empty result for an overview page, the
\* first or a later one, get_stats does not raise: the page adds no repo,
\* what the earlier pages added is kept, and the pass completes.
C13_EmptyPageTolerated ==
    (pages >= 1 /\ ~lastpage.data) =>
        /\ tpc[1] = "idle"
        /\ ~retval[1].raised
        /\ _repos.val = seen \ _exclude_repos

\* C14: over a pass of several pages the display name, the issue total and
\* the pull-request total are those of the first page (in SpecAgg every
\* page that has data carries HeaderAnn, and a first page without data ends
\* the pass): no later page, an empty one included, changes them.
C14_FirstPageKept ==
    pages >= 2 =>
        /\ _name = HeaderAnn.name
        /\ _issues = HeaderAnn.openIssues + HeaderAnn.closedIssues
        /\ _prs = HeaderAnn.pullRequests

----------------------------------------------------------------------------
(* Properties of concurrent reads                                          *)

\* task p is suspended inside the computation that produces the field f
Computing(p, f) ==
    \/ f \in {"repos", "languages", "languages_proportional"} /\ tpc[p] = "get_stats"
    \/ f = "total_contributions" /\ tpc[p] \in {"years", "contribs"}

\* C15: while an aggregation pass or the two-phase protocol of one task is
\* suspended at a network await, no read of repos, languages,
\* languages_proportional or total_contributions by another task returns:
\* a read never hands out the partly populated or placeholder value.
C15_NoPlaceholderRead ==
    [][\A q \in Procs :
          (nreads'[q] # nreads[q] /\ tpc'[q] = "idle")
              => ~\E p \in Procs : Computing(p, retval'[q].field)]_nreads

----------------------------------------------------------------------------
(* Properties of the cursors                                               *)

\* the cursor a collection has after a page with the pageInfo info, when it
\* had the cursor prev: the page's token, or prev when the page has none
Advanced(info, prev) ==
    IF info.endCursor \in {Absent, None} THEN prev ELSE info.endCursor

\* C16: when the loop goes on after a page, each cursor is set from the
\* token of its own collection's page, and a collection whose page has no
\* token (endCursor absent or null) keeps the cursor it had: it is not put
\* back to the first page.
C16_CursorsAdvance ==
    [][(pages' = pages + 1 /\ tpc'[1] = "get_stats") =>
          /\ next_owned'[1] = Advanced(lastpage'.owned, next_owned[1])
          /\ next_contrib'[1] = Advanced(lastpage'.contrib, next_contrib[1])]_pages

----------------------------------------------------------------------------
(* Properties of query_rest's handling of the status                       *)

\* C17: the body that a call of query_rest returns is the body of a
\* response with a success status (2xx other than 202): the body of a
\* response with another status is never the result of the call.
C17_OnlySuccessBodies ==
    \A p \in Procs :
        (gkind[p] = "rest" /\ gpc[p] = "done" /\ result[p].tag = "return"
           /\ result[p].val.t = "json")
            => (result[p].val.of \in 200 .. 299 /\ result[p].val.of # 202)

----------------------------------------------------------------------------
(* Properties of the display name                                          *)

\* C18: once a page has been processed the display name is the viewer's
\* name, else the login, else "No Name": it is never None (so that the name
\* accessor's assertion cannot fail), whatever the overview response.
C18_NameNeverNull == pages >= 1 => _name # None

----------------------------------------------------------------------------
(* Properties of the slots                                                 *)

\* every caller has its result
AllDone == \A p \in Procs : gpc[p] = "done"

\* no call is in progress
Quiet == \A p \in Procs : gpc[p] \in {"idle", "done"}

\* C19: every slot acquired is released on every path, the primary one
\* before the fallback acquires one: the free slots are the capacity less
\* the calls inside an `async with` block.  With capacity 1 no state is a
\* deadlock, and when the event loop is fair and every request returns,
\* the calls in progress, those waiting for the slot and those whose
\* primary transport failed among them, are admitted and complete.
C19_SlotsReleased ==
    /\ [](semaphore = capacity - Cardinality(InFlight))
    /\ [](AllDone \/ ENABLED NextGateway)
    /\ (~Quiet) ~> Quiet

\* on a gateway of capacity 1 a call completed through the fallback, after
\* a 202 inside the fallback branch, and the other calls completed too
C19_Witness ==
    /\ capacity = 1
    /\ AllDone
    /\ \E p \in Procs : gkind[p] = "rest" /\ n202[p] = 1 /\ nreq[p] >= 3
                          /\ result[p].tag = "return"

\* the repos that were on contributed pages only
ContribOnly == contrib_seen \ owned_seen

\* the repos the policy lets in: those of the owned pages, and those of the
\* contributed pages unless the policy is set
Admitted ==
    IF _ignore_forked_repos THEN owned_seen ELSE owned_seen \cup contrib_seen

\* C20: with the ignore policy set, a repo that was on contributed pages only
\* is not in the repo set and adds nothing to the size or the occurrences of
\* any language, on any page; with the policy not set, every repo of both
\* collections that is not excluded is in the repo set.
C20_PolicyObeyed ==
    _repos.some =>
        /\ _repos.val = Admitted \ _exclude_repos
        /\ _ignore_forked_repos => _repos.val \cap ContribOnly = {}
        /\ \A n \in DOMAIN _languages.val :
              /\ _languages.val[n].size =
                    SizeOver(Reporting(Admitted \ _exclude_repos, n), n)
              /\ _languages.val[n].occurrences =
                    Cardinality(Reporting(Admitted \ _exclude_repos, n))

\* with the policy set, "o/c" was on a contributed page and on no owned one,
\* and the pass went over two pages
C20_Witness ==
    /\ _ignore_forked_repos
    /\ pages >= 2
    /\ tpc[1] = "idle"
    /\ "o/c" \in ContribOnly
    /\ _repos = Some({"u/a", "u/b"})
    /\ DOMAIN _languages.val = {"Python", "C"}

====
